---- MODULE Spec2Model ----
(***************************************************************************)
(* Model of app/services/thesis_validation/validator.py: the validation    *)
(* of a .docx thesis against ThesisStyleRules.                             *)
(*                                                                         *)
(* Representation.                                                         *)
(*  - A text is a run-length encoded string: a sequence of <<c, n>>, the   *)
(*    character c repeated n >= 1 times, so that texts of several thousand *)
(*    characters (MIN_TEXT_CHARS, MAX_TEXT_CHARS) stay small.              *)
(*  - The template's Cyrillic words are written in Latin letters of the    *)
(*    same length: "література" as literatura, "Рис." as Ris., "Таблиця"   *)
(*    as Tablica.                                                          *)
(*  - An optional value (None in Python) is <<>>, a present value v <<v>>. *)
(*  - Lengths are the integers that int(...) yields in the code; font      *)
(*    sizes are in half-points (size.pt = half-points / 2), line spacing   *)
(*    multipliers in 240ths of a line (w:line, multiplier = line / 240).   *)
(*  - A finding is [code, severity, details]; the message text is fixed    *)
(*    by the code and the rules and is left out.                           *)
(***************************************************************************)
EXTENDS Integers, Sequences, FiniteSets, TLC

VARIABLES pc, doc, rules, issues, report, error, first

vars == <<pc, doc, rules, issues, report, error, first>>

None == <<>>
Some(v) == <<v>>
IsNone(x) == x = <<>>
Val(x) == x[1]

Abs(x) == IF x < 0 THEN -x ELSE x

ERROR == "error"
WARNING == "warning"

Issue(code, severity, details) ==
    [code |-> code, severity |-> severity, details |-> details]

-----------------------------------------------------------------------------
(* Characters and texts *)

LowerLetters == <<"a","b","c","d","e","f","g","h","i","j","k","l","m",
                  "n","o","p","q","r","s","t","u","v","w","x","y","z">>
UpperLetters == <<"A","B","C","D","E","F","G","H","I","J","K","L","M",
                  "N","O","P","Q","R","S","T","U","V","W","X","Y","Z">>

IsLower(c) == \E i \in DOMAIN LowerLetters : LowerLetters[i] = c
IsUpper(c) == \E i \in DOMAIN UpperLetters : UpperLetters[i] = c
IsDigit(c) == c \in {"0","1","2","3","4","5","6","7","8","9"}
IsSpace(c) == c \in {" ", "\n", "\t"}

LowerChar(c) ==
    IF IsUpper(c)
    THEN LowerLetters[CHOOSE i \in DOMAIN UpperLetters : UpperLetters[i] = c]
    ELSE c

UpperChar(c) ==
    IF IsLower(c)
    THEN UpperLetters[CHOOSE i \in DOMAIN LowerLetters : LowerLetters[i] = c]
    ELSE c

(* a literal: one segment per character *)
S(chars) == [i \in 1..Len(chars) |-> <<chars[i], 1>>]
(* the character c, n times *)
Rep(c, n) == << <<c, n>> >>

RECURSIVE TextLen(_)
TextLen(t) == IF t = <<>> THEN 0 ELSE t[1][2] + TextLen(Tail(t))

RECURSIVE LStrip(_)
LStrip(t) ==
    IF t = <<>> THEN <<>>
    ELSE IF IsSpace(t[1][1]) THEN LStrip(Tail(t)) ELSE t

RECURSIVE RStrip(_)
RStrip(t) ==
    IF t = <<>> THEN <<>>
    ELSE IF IsSpace(t[Len(t)][1]) THEN RStrip(SubSeq(t, 1, Len(t) - 1)) ELSE t

(* str.strip() *)
Strip(t) == RStrip(LStrip(t))

(* str.lower(), str.upper() *)
Lower(t) == [i \in DOMAIN t |-> <<LowerChar(t[i][1]), t[i][2]>>]
Upper(t) == [i \in DOMAIN t |-> <<UpperChar(t[i][1]), t[i][2]>>]

RECURSIVE CharAt(_, _)
CharAt(t, i) == IF i <= t[1][2] THEN t[1][1] ELSE CharAt(Tail(t), i - t[1][2])

(* the characters of t, one by one *)
Chars(t) == [i \in 1..TextLen(t) |-> CharAt(t, i)]

(* a == b on strings *)
TextEq(a, b) == TextLen(a) = TextLen(b) /\ Chars(a) = Chars(b)

(* t[n:] *)
RECURSIVE DropChars(_, _)
DropChars(t, n) ==
    IF n = 0 \/ t = <<>> THEN t
    ELSE IF t[1][2] <= n THEN DropChars(Tail(t), n - t[1][2])
    ELSE << <<t[1][1], t[1][2] - n>> >> \o Tail(t)

(* t[:n] *)
RECURSIVE TakeChars(_, _)
TakeChars(t, n) ==
    IF n = 0 \/ t = <<>> THEN <<>>
    ELSE IF t[1][2] <= n THEN <<t[1]>> \o TakeChars(Tail(t), n - t[1][2])
    ELSE << <<t[1][1], n>> >>

(* t.startswith(prefix) *)
StartsWith(t, prefix) ==
    /\ TextLen(t) >= TextLen(prefix)
    /\ \A i \in 1..TextLen(prefix) : CharAt(t, i) = CharAt(prefix, i)

(* c in t *)
Contains(t, c) == \E i \in DOMAIN t : t[i][1] = c

(* "\n".join(texts), the list joined half by half *)
RECURSIVE JoinLines(_)
JoinLines(texts) ==
    IF texts = <<>> THEN <<>>
    ELSE IF Len(texts) = 1 THEN texts[1]
    ELSE LET m == Len(texts) \div 2
         IN  JoinLines(SubSeq(texts, 1, m)) \o Rep("\n", 1)
                 \o JoinLines(SubSeq(texts, m + 1, Len(texts)))

(* len(re.sub(r"\s+", " ", t)): every maximal stretch of whitespace counts 1; *)
(* inSpace tells whether whitespace precedes t, and the text is counted half  *)
(* by half                                                                    *)
RECURSIVE CollapsedLen(_, _)
CollapsedLen(t, inSpace) ==
    IF t = <<>> THEN 0
    ELSE IF Len(t) = 1
    THEN (IF IsSpace(t[1][1]) THEN (IF inSpace THEN 0 ELSE 1) ELSE t[1][2])
    ELSE LET m == Len(t) \div 2
         IN  CollapsedLen(SubSeq(t, 1, m), inSpace)
                 + CollapsedLen(SubSeq(t, m + 1, Len(t)), IsSpace(t[m][1]))

-----------------------------------------------------------------------------
(* Requirements and tolerances *)

REQUIRED_FONT == "Times New Roman"
(* 14 pt, in half-points *)
REQUIRED_SIZE_PT == 28
(* 12 pt, in half-points *)
CAPTION_SIZE_PT == 24
(* int(round(20 * MM_TO_INCH * TWIPS_PER_INCH)) = round(1133.86) *)
MARGIN_20MM_TWIPS == 1134
MARGIN_TWIPS_TOL == 40
(* 0.5 pt, in half-points *)
FONT_SIZE_TOL == 1
(* 1.25 cm, in hundredths of a centimetre *)
INDENT_CM == 125
(* 1.15, in hundredths *)
LINE_SPACING_TARGET == 115
(* 0.06, in hundredths *)
LINE_SPACING_TOL == 6
MIN_TEXT_CHARS == 800
MAX_TEXT_CHARS == 6500
(* body[:30] *)
BodySampleSize == 30
(* abs(int(indent) - expected_twips) > 80 *)
IndentTol == 80
(* paragraphs[lit_pos + 1 : lit_pos + 6] *)
LitLookahead == 5

(* the heading and the caption markers of the template *)
LiteratureHeading == S(<<"l","i","t","e","r","a","t","u","r","a">>)
FigureMarker == S(<<"R","i","s",".">>)
TableMarker == S(<<"T","a","b","l","i","c","a">>)

(* ThesisStyleRules(): the defaults of the dataclass *)
ThesisStyleRules ==
    [font_name |-> REQUIRED_FONT,
     font_size_pt |-> REQUIRED_SIZE_PT,
     margin_twips |-> MARGIN_20MM_TWIPS,
     require_bold_header |-> TRUE,
     title_uppercase |-> TRUE,
     authors_italic |-> TRUE,
     header_centered |-> TRUE,
     body_justify |-> TRUE,
     line_spacing |-> LINE_SPACING_TARGET,
     paragraph_indent_cm |-> INDENT_CM,
     require_literature_block |-> TRUE]

-----------------------------------------------------------------------------
(* The parsed document, as python-docx presents it *)

Run(text, name, size, bold, italic) ==
    [text |-> text, name |-> name, size |-> size, bold |-> bold, italic |-> italic]

(* link: the text of a hyperlink at the end of the paragraph, which p.text  *)
(* includes and p.runs does not; <<>> when there is none                    *)
Paragraph(alignment, line_spacing, first_line_indent, runs, link) ==
    [alignment |-> alignment, line_spacing |-> line_spacing,
     first_line_indent |-> first_line_indent, runs |-> runs, link |-> link]

RECURSIVE RunsText(_)
RunsText(runs) ==
    IF runs = <<>> THEN <<>> ELSE runs[1].text \o RunsText(Tail(runs))

(* p.text *)
ParaText(p) == RunsText(p.runs) \o p.link

(* (p.text or "").strip() *)
StrippedText(p) == Strip(ParaText(p))

(* not (r.text or "").strip() *)
BlankRun(r) == Strip(r.text) = <<>>

(* the runs the checks look at, in order *)
NonBlankRuns(p) == SelectSeq(p.runs, LAMBDA r : ~BlankRun(r))

(* [p for p in doc.paragraphs if (p.text or "").strip()] *)
NonEmptyParagraphs(d) == SelectSeq(d.paragraphs, LAMBDA p : StrippedText(p) # <<>>)

(* (p.text or "").strip().lower() == "література" *)
IsLiteratureHeading(p) == TextEq(Lower(StrippedText(p)), LiteratureHeading)

(* the first index at which the sequence of booleans holds TRUE, 0 when none *)
FirstIndex(flags) ==
    IF \E i \in DOMAIN flags : flags[i]
    THEN CHOOSE i \in DOMAIN flags : flags[i] /\ \A j \in 1..(i - 1) : ~flags[j]
    ELSE 0

RECURSIVE Flatten(_)
Flatten(ss) == IF ss = <<>> THEN <<>> ELSE ss[1] \o Flatten(Tail(ss))

-----------------------------------------------------------------------------
(* _check_page_setup *)

SectionHasHeaderFooterText(section) ==
    \/ \E i \in DOMAIN section.header : Strip(section.header[i]) # <<>>
    \/ \E i \in DOMAIN section.footer : Strip(section.footer[i]) # <<>>

Sides(section) ==
    << <<"top", section.top_margin>>, <<"bottom", section.bottom_margin>>,
       <<"left", section.left_margin>>, <<"right", section.right_margin>> >>

(* a variant: the tolerance itself out of tolerance *)
MarginAtTolerance(value, r) == Abs(value - r.margin_twips) >= MARGIN_TWIPS_TOL

MarginOutOfTolerance(value, r) == Abs(value - r.margin_twips) > MARGIN_TWIPS_TOL

MarginIssue(idx, side, r) ==
    IF MarginOutOfTolerance(side[2], r)
    THEN << Issue("MARGIN_NOT_20MM", ERROR,
                  << <<"section", idx>>, <<"side", side[1]>>, <<"twips", side[2]>>,
                     <<"expected_twips", r.margin_twips>> >>) >>
    ELSE <<>>

PageSetupSection(idx, section, r) ==
    (IF ~(/\ 11700 <= section.page_width /\ section.page_width <= 12150
          /\ 16600 <= section.page_height /\ section.page_height <= 17050)
     THEN << Issue("PAGE_NOT_A4", WARNING,
                   << <<"section", idx>>, <<"page_width_twips", section.page_width>>,
                      <<"page_height_twips", section.page_height>> >>) >>
     ELSE <<>>)
    \o Flatten([k \in 1..4 |-> MarginIssue(idx, Sides(section)[k], r)])
    \o (IF SectionHasHeaderFooterText(section)
        THEN << Issue("HEADER_FOOTER_PRESENT", ERROR, << <<"section", idx>> >>) >>
        ELSE <<>>)

CheckPageSetup(d, r) ==
    Flatten([i \in DOMAIN d.sections |-> PageSetupSection(i - 1, d.sections[i], r)])

-----------------------------------------------------------------------------
(* _check_paragraph_font *)

BadName(run, r) == ~IsNone(run.name) /\ Val(run.name) # r.font_name

BadSize(run, r) ==
    ~IsNone(run.size) /\ Abs(Val(run.size) - r.font_size_pt) > FONT_SIZE_TOL

(* a variant: a run unknown by its size alone *)
UnknownFontBySize(run) == IsNone(run.size)

UnknownFont(run) == IsNone(run.name) \/ IsNone(run.size)

(* r.bold is not True, r.italic is not True *)
NotBold(run) == run.bold # Some(TRUE)
NotItalic(run) == run.italic # Some(TRUE)

CheckParagraphFont(p, r, must_bold, must_italic, where) ==
    LET text == StrippedText(p)
        runs == NonBlankRuns(p)
        AnyRun(Test(_)) == \E i \in DOMAIN runs : Test(runs[i])
        any_run == runs # <<>>
        bad_name == AnyRun(LAMBDA x : BadName(x, r))
        bad_size == AnyRun(LAMBDA x : BadSize(x, r))
        bad_bold == must_bold /\ AnyRun(NotBold)
        bad_italic == must_italic /\ AnyRun(NotItalic)
        unknown_font == AnyRun(UnknownFont) \/ ~any_run
        details == << <<"where", where>>, <<"text", text>> >>
    IN  IF text = <<>> THEN <<>>
        ELSE (IF bad_name THEN << Issue("FONT_NAME_MISMATCH", ERROR, details) >> ELSE <<>>)
          \o (IF bad_size THEN << Issue("FONT_SIZE_MISMATCH", ERROR, details) >> ELSE <<>>)
          \o (IF must_bold /\ bad_bold
              THEN << Issue("HEADER_NOT_BOLD", ERROR, details) >> ELSE <<>>)
          \o (IF must_italic /\ bad_italic
              THEN << Issue("AUTHORS_NOT_ITALIC", ERROR, details) >> ELSE <<>>)
          \o (IF unknown_font /\ ~(bad_name \/ bad_size)
              THEN << Issue("FONT_UNKNOWN", WARNING, << <<"where", where>> >>) >>
              ELSE <<>>)

-----------------------------------------------------------------------------
(* _check_header_structure *)

(* the letters, the apostrophe and the hyphen of the surname class *)
IsSurnameChar(c) == IsLower(c) \/ IsUpper(c) \/ c \in {"'", "-"}

(* t starts with [A-Z]\. *)
StartsWithInitial(t) ==
    TextLen(t) >= 2 /\ IsUpper(CharAt(t, 1)) /\ CharAt(t, 2) = "."

(* re.search(r"[letters'\-]+\s+[A-Z]\.\s*[A-Z]\.", t) *)
HasInitialsPattern(t) ==
    \E i \in 1..TextLen(t) :
        /\ IsSurnameChar(CharAt(t, i))
        /\ LET afterName == DropChars(t, i)
               first_initial == LStrip(afterName)
           IN  /\ afterName # <<>>
               /\ IsSpace(afterName[1][1])
               /\ StartsWithInitial(first_initial)
               /\ StartsWithInitial(LStrip(DropChars(first_initial, 2)))

(* title_text != title_text.upper() *)
NotUppercase(t) == \E i \in DOMAIN t : Upper(t)[i] # t[i]

(* a variant: the finding appended, and the paragraphs there are checked *)
HeaderTooShortThenFonts(paragraphs, r) ==
    << Issue("HEADER_TOO_SHORT", ERROR, None) >>
    \o Flatten([i \in DOMAIN paragraphs |->
                  CheckParagraphFont(paragraphs[i], r, TRUE, FALSE, "title")])

(* fewer than three non-empty paragraphs: the single finding returned at once *)
HeaderTooShort(paragraphs, r) == << Issue("HEADER_TOO_SHORT", ERROR, None) >>

(* the bold requirement passed to _check_paragraph_font for the header blocks *)
HeaderMustBold(r) == TRUE

CheckHeaderStructure(d, r) ==
    LET paragraphs == NonEmptyParagraphs(d)
        title_p == paragraphs[1]
        authors_p == paragraphs[2]
        org_p == paragraphs[3]
        Center(code, p) ==
            IF p.alignment # "CENTER"
            THEN << Issue(code, ERROR, << <<"text", StrippedText(p)>> >>) >>
            ELSE <<>>
        title_text == StrippedText(title_p)
        authors_line == << <<"authors_line", StrippedText(authors_p)>> >>
    IN  IF Len(paragraphs) < 3
        THEN HeaderTooShort(paragraphs, r)
        ELSE (IF r.header_centered
              THEN Center("TITLE_NOT_CENTER", title_p)
                   \o Center("AUTHORS_NOT_CENTER", authors_p)
                   \o Center("ORG_NOT_CENTER", org_p)
              ELSE <<>>)
          \o (IF r.title_uppercase /\ title_text # <<>> /\ NotUppercase(title_text)
              THEN << Issue("TITLE_NOT_UPPERCASE", ERROR, << <<"title", title_text>> >>) >>
              ELSE <<>>)
          \o CheckParagraphFont(title_p, r, HeaderMustBold(r), FALSE, "title")
          \o CheckParagraphFont(authors_p, r, HeaderMustBold(r), r.authors_italic, "authors")
          \o CheckParagraphFont(org_p, r, HeaderMustBold(r), FALSE, "organization")
          \o (IF ~Contains(ParaText(authors_p), ",")
              THEN << Issue("AUTHORS_LIST_FORMAT", WARNING, authors_line) >>
              ELSE <<>>)
          \o (IF ~HasInitialsPattern(ParaText(authors_p))
              THEN << Issue("AUTHORS_INITIALS_PATTERN", WARNING, authors_line) >>
              ELSE <<>>)

-----------------------------------------------------------------------------
(* _check_body_paragraphs *)

(* int(round(rules.paragraph_indent_cm * 10 * MM_TO_INCH * TWIPS_PER_INCH)):   *)
(* cm * 1440 / 2.54, rounded to the nearest integer (no tie can occur)          *)
(* a variant: the expected indent cut off instead of rounded *)
ExpectedIndentTruncated(r) == (r.paragraph_indent_cm * 720) \div 127

ExpectedIndentTwips(r) == (2 * r.paragraph_indent_cm * 720 + 127) \div (2 * 127)

(* isinstance(ls, (int, float)): a multiplier is a float, and an absolute     *)
(* spacing is a Length, which python-docx derives from int                     *)
IsIntOrFloat(ls) == ls.kind \in {"mult", "abs"}
IsLength(ls) == ls.kind = "abs"

(* abs(float(ls) - rules.line_spacing) > LINE_SPACING_TOL, in 24000ths for a  *)
(* multiplier of v/240 and in hundredths for an integer v                      *)
LineSpacingOff(ls, r) ==
    IF ls.kind = "mult"
    THEN Abs(100 * ls.v - 240 * r.line_spacing) > 240 * LINE_SPACING_TOL
    ELSE Abs(100 * ls.v - r.line_spacing) > LINE_SPACING_TOL

(* r.font.name and r.font.name != rules.font_name *)
BodyBadName(run, r) ==
    ~IsNone(run.name) /\ Val(run.name) # "" /\ Val(run.name) # r.font_name

(* r.font.size and abs(r.font.size.pt - rules.font_size_pt) > FONT_SIZE_TOL *)
BodyBadSize(run, r) ==
    /\ ~IsNone(run.size) /\ Val(run.size) # 0
    /\ Abs(Val(run.size) - r.font_size_pt) > FONT_SIZE_TOL

(* the loop over p.runs, left at the first finding *)
BodyFontIssues(p, r) ==
    LET runs == NonBlankRuns(p)
        txt == StrippedText(p)
        k == FirstIndex([i \in DOMAIN runs |-> BodyBadName(runs[i], r) \/ BodyBadSize(runs[i], r)])
    IN  IF k = 0 THEN <<>>
        ELSE IF BodyBadName(runs[k], r)
        THEN << Issue("BODY_FONT_NAME_MISMATCH", WARNING,
                      << <<"paragraph", TakeChars(txt, 80)>>, <<"font", Val(runs[k].name)>> >>) >>
        ELSE << Issue("BODY_FONT_SIZE_MISMATCH", WARNING,
                      << <<"paragraph", TakeChars(txt, 80)>>, <<"size_pt", Val(runs[k].size)>> >>) >>

BodyParagraphIssues(p, r) ==
    LET txt == StrippedText(p)
        ls == p.line_spacing
        indent == p.first_line_indent
    IN  IF txt = <<>> THEN <<>>
        ELSE (IF r.body_justify /\ p.alignment \notin {"None", "JUSTIFY"}
              THEN << Issue("BODY_NOT_JUSTIFIED", WARNING,
                            << <<"paragraph", TakeChars(txt, 80)>> >>) >>
              ELSE <<>>)
          \o (IF ls.kind = "none" THEN <<>>
              ELSE IF IsIntOrFloat(ls)
              THEN (IF LineSpacingOff(ls, r)
                    THEN << Issue("LINE_SPACING_MISMATCH", WARNING,
                                  << <<"got", ls>>, <<"expected", r.line_spacing>> >>) >>
                    ELSE <<>>)
              ELSE IF IsLength(ls)
              THEN << Issue("LINE_SPACING_ABSOLUTE", WARNING, None) >>
              ELSE <<>>)
          \o (IF ~IsNone(indent) /\ Abs(Val(indent) - ExpectedIndentTwips(r)) > IndentTol
              THEN << Issue("INDENT_MISMATCH", WARNING,
                            << <<"got_twips", Val(indent)>>,
                               <<"expected_twips", ExpectedIndentTwips(r)>> >>) >>
              ELSE <<>>)
          \o BodyFontIssues(p, r)

(* seq[:n] *)
Take(seq, n) == SubSeq(seq, 1, IF Len(seq) < n THEN Len(seq) ELSE n)

(* the paragraphs after the three header lines, up to the heading *)
Body(d) ==
    LET paragraphs == NonEmptyParagraphs(d)
        body == SubSeq(paragraphs, 4, Len(paragraphs))
        lit_idx == FirstIndex([i \in DOMAIN body |-> IsLiteratureHeading(body[i])])
    IN  IF lit_idx # 0 THEN SubSeq(body, 1, lit_idx - 1) ELSE body

(* a variant: the whole body checked *)
SampleUncapped(d) == Body(d)

(* body[:30] if len(body) > 30 else body *)
Sample(d) == Take(Body(d), BodySampleSize)

CheckBodyParagraphs(d, r) ==
    IF Len(NonEmptyParagraphs(d)) < 4 THEN <<>>
    ELSE Flatten([i \in DOMAIN Sample(d) |-> BodyParagraphIssues(Sample(d)[i], r)])

-----------------------------------------------------------------------------
(* _check_literature *)

RECURSIVE SkipDigits(_)
SkipDigits(t) ==
    IF t # <<>> /\ IsDigit(t[1][1]) THEN SkipDigits(Tail(t)) ELSE t

(* re.match(r"^\s*\d+\.", t) *)
IsNumberedItem(t) ==
    LET s == LStrip(t)
    IN  /\ s # <<>>
        /\ IsDigit(s[1][1])
        /\ SkipDigits(s) # <<>>
        /\ SkipDigits(s)[1][1] = "."

(* a variant: the absent heading reported as a warning *)
LiteratureMissingAsWarning == Issue("LITERATURE_MISSING", WARNING, None)

(* the finding for a required heading that is absent *)
LiteratureMissing == Issue("LITERATURE_MISSING", ERROR, None)

CheckLiterature(d, r) ==
    LET paragraphs == NonEmptyParagraphs(d)
        found == FirstIndex([i \in DOMAIN paragraphs |-> IsLiteratureHeading(paragraphs[i])])
        (* the 0-based position of the heading *)
        lit_pos == found - 1
        after == SubSeq(paragraphs, found + 1,
                        IF Len(paragraphs) < found + LitLookahead
                        THEN Len(paragraphs) ELSE found + LitLookahead)
        has_item == \E i \in DOMAIN after : IsNumberedItem(StrippedText(after[i]))
    IN  IF paragraphs = <<>> THEN <<>>
        ELSE IF r.require_literature_block /\ found = 0
        THEN << LiteratureMissing >>
        ELSE IF found = 0 THEN <<>>
        ELSE (IF lit_pos < (6 * Len(paragraphs)) \div 10
              THEN << Issue("LITERATURE_NOT_AT_END", WARNING,
                            << <<"position", lit_pos>>,
                               <<"total_paragraphs", Len(paragraphs)>> >>) >>
              ELSE <<>>)
          \o (IF ~has_item
              THEN << Issue("LITERATURE_ITEMS_FORMAT", WARNING, None) >>
              ELSE <<>>)

-----------------------------------------------------------------------------
(* _check_captions *)

(* re.match(r"^(marker\s*\d+)", txt) *)
MarkerThenNumber(txt, marker) ==
    /\ StartsWith(txt, marker)
    /\ LET rest == LStrip(DropChars(txt, TextLen(marker)))
       IN  rest # <<>> /\ IsDigit(rest[1][1])

IsCaption(txt) ==
    MarkerThenNumber(txt, FigureMarker) \/ MarkerThenNumber(txt, TableMarker)

(* r.font.size and abs(r.font.size.pt - CAPTION_SIZE_PT) > 0.5 *)
CaptionBadSize(run) ==
    /\ ~IsNone(run.size) /\ Val(run.size) # 0
    /\ Abs(Val(run.size) - CAPTION_SIZE_PT) > 1

(* a variant: the loop over the runs not left at the first finding *)
CaptionIssuesNoBreak(p) ==
    LET txt == StrippedText(p)
        bad == SelectSeq(NonBlankRuns(p), CaptionBadSize)
    IN  IF txt = <<>> \/ ~IsCaption(txt) THEN <<>>
        ELSE [k \in DOMAIN bad |->
                Issue("CAPTION_SIZE_MISMATCH", WARNING,
                      << <<"caption", TakeChars(txt, 80)>>, <<"size_pt", Val(bad[k].size)>> >>)]

(* a variant: the caption size reported as an error *)
CaptionIssuesAsErrors(p) ==
    LET txt == StrippedText(p)
        runs == NonBlankRuns(p)
        k == FirstIndex([i \in DOMAIN runs |-> CaptionBadSize(runs[i])])
    IN  IF txt = <<>> \/ ~IsCaption(txt) \/ k = 0 THEN <<>>
        ELSE << Issue("CAPTION_SIZE_MISMATCH", ERROR,
                      << <<"caption", TakeChars(txt, 80)>>,
                         <<"size_pt", Val(runs[k].size)>> >>) >>

(* what one paragraph adds: the loop over its runs, left at the first finding *)
CaptionIssues(p) ==
    LET txt == StrippedText(p)
        runs == NonBlankRuns(p)
        k == FirstIndex([i \in DOMAIN runs |-> CaptionBadSize(runs[i])])
    IN  IF txt = <<>> \/ ~IsCaption(txt) \/ k = 0 THEN <<>>
        ELSE << Issue("CAPTION_SIZE_MISMATCH", WARNING,
                      << <<"caption", TakeChars(txt, 80)>>,
                         <<"size_pt", Val(runs[k].size)>> >>) >>

CheckCaptions(d) ==
    Flatten([i \in DOMAIN d.paragraphs |-> CaptionIssues(d.paragraphs[i])])

-----------------------------------------------------------------------------
(* _check_length_heuristic *)

(* len(re.sub(r"\s+", " ", "\n".join(p.text for p in doc.paragraphs).strip())) *)
TextChars(d) ==
    CollapsedLen(Strip(JoinLines([i \in DOMAIN d.paragraphs |-> ParaText(d.paragraphs[i])])),
                 FALSE)

TooShort(chars) == chars < MIN_TEXT_CHARS
(* a variant: the maximum itself too long *)
TooLongInclusive(chars) == chars >= MAX_TEXT_CHARS
TooLong(chars) == chars > MAX_TEXT_CHARS

CheckLengthHeuristic(d) ==
    LET chars == TextChars(d)
    IN  (IF TooShort(chars)
         THEN << Issue("LENGTH_TOO_SHORT", WARNING,
                       << <<"chars", chars>>, <<"min_expected", MIN_TEXT_CHARS>> >>) >>
         ELSE <<>>)
     \o (IF TooLong(chars)
         THEN << Issue("LENGTH_TOO_LONG", WARNING,
                       << <<"chars", chars>>, <<"max_expected", MAX_TEXT_CHARS>> >>) >>
         ELSE <<>>)

-----------------------------------------------------------------------------
(* validate_thesis_docx, one step per statement *)

(* a variant: one list kept from call to call *)
KeptIssueList(previous) == previous

(* issues: list[ValidationIssue] = [] *)
NewIssueList(previous) == <<>>

(* a variant: the findings put in front *)
Prepend(list, found) == found \o list

(* issues += found *)
Extend(list, found) == list \o found

(* a variant: passing only without findings *)
VerdictNoFindings(list) == list = <<>>

(* not any(i.severity == Severity.ERROR for i in issues) *)
Verdict(list) == ~\E i \in DOMAIN list : list[i].severity = ERROR

(* ValidationReport(ok=ok, issues=issues) *)
ValidationReport(list) == [ok |-> Verdict(list), issues |-> list]

(* a variant: the failure caught and returned as a failed report *)
FailureAsReport(file) == [report |-> Some([ok |-> FALSE, issues |-> <<>>]), error |-> None]

(* what Document(str(path)) does when the file cannot be read as a .docx:   *)
(* it raises, and validate_thesis_docx lets the exception through            *)
LoadFailure(file) == [report |-> None, error |-> Some("DocumentParseError")]

NoFile == [readable |-> FALSE, sections |-> <<>>, paragraphs |-> <<>>]
NoInput == [file |-> NoFile, rules |-> None]

Idle == pc \in {"idle", "returned", "raised"}

-----------------------------------------------------------------------------
(* Documents and rules the calls are made with *)

MaxRuns == 2
MaxSections == 2
MaxParas == 3

TitleUpper == S(<<"M","Y"," ","T","E","X","T">>)
TitleMixed == S(<<"M","y"," ","T","e","x","t">>)
AuthorsInitials ==
    S(<<"A","b","e"," ","A",".","B",".",","," ","I","t","o"," ","I","."," ","O",".">>)
AuthorsPlain == S(<<"A","b","e"," ","I","t","o">>)
OrgText == S(<<"K","P","I">>)
HeadingCapital == S(<<"L","i","t","e","r","a","t","u","r","a">>)
HeadingPadded == S(<<" ">>) \o Upper(LiteratureHeading) \o S(<<" ","\n">>)
HeadingColon == LiteratureHeading \o S(<<":">>)
ItemText == S(<<"1","2","."," ","A","b","e">>)
FigureCaption == S(<<"R","i","s","."," ","1"," ","A","b","c">>)
TableCaption == S(<<" ","T","a","b","l","i","c","a","2">>)
FigureWord == S(<<"R","i","s","."," ","a">>)
Filler(n) == Rep("x", n)

NoSpacing == [kind |-> "none", v |-> 0]
Multiple(line) == [kind |-> "mult", v |-> line]
Absolute(length) == [kind |-> "abs", v |-> length]

HeaderRun(text) == Run(text, Some(REQUIRED_FONT), Some(REQUIRED_SIZE_PT), Some(TRUE), Some(TRUE))
PlainRun(text) == Run(text, None, None, None, None)
SizedRun(text, size) == Run(text, Some(REQUIRED_FONT), Some(size), None, None)

Centered(runs) == Paragraph("CENTER", NoSpacing, None, runs, <<>>)
Justified(runs) == Paragraph("JUSTIFY", Multiple(276), Some(709), runs, <<>>)

GoodHeader ==
    << Centered(<<HeaderRun(TitleUpper)>>), Centered(<<HeaderRun(AuthorsInitials)>>),
       Centered(<<HeaderRun(OrgText)>>) >>
GoodTail == << Justified(<<PlainRun(HeadingCapital)>>), Justified(<<PlainRun(ItemText)>>) >>
EmptyParagraph == Paragraph("None", NoSpacing, None, <<>>, <<>>)

Section(w, h, top, bottom, left, right, header, footer) ==
    [page_width |-> w, page_height |-> h, top_margin |-> top, bottom_margin |-> bottom,
     left_margin |-> left, right_margin |-> right, header |-> header, footer |-> footer]

A4(top, bottom, left, right) == Section(11906, 16838, top, bottom, left, right, <<>>, <<>>)
GoodSection == A4(1134, 1134, 1134, 1134)

File(sections, paragraphs) ==
    [readable |-> TRUE, sections |-> sections, paragraphs |-> paragraphs]
(* a file that Document() cannot open *)
Corrupt == NoFile

GoodFile(n) == File(<<GoodSection>>, GoodHeader \o <<Justified(<<PlainRun(Filler(n))>>)>> \o GoodTail)

Input(file, r) == [file |-> file, rules |-> r]

SeqsUpTo(pool, n) == UNION {[1..k -> pool] : k \in 0..n}

(* page setup: margins at and around the tolerance, page sizes, header text *)
SectionPool ==
    {A4(t, 1134, l, r) : t \in {1134, 1180}, l \in {1134, 1174, 1175, 1094, 1093, 1216},
                         r \in {1134, 1000}}
    \cup {A4(1134, 1175, 1134, 1134),
          Section(12240, 15840, 1134, 1134, 1134, 1134, <<>>, <<>>),
          Section(11906, 16838, 1134, 1134, 1134, 1134, <<S(<<" ">>)>>, <<>>),
          Section(11906, 16838, 1134, 1134, 1134, 1134, <<>>, <<S(<<"1">>)>>)}
SectionSeqs ==
    {<<s>> : s \in SectionPool}
    \cup SeqsUpTo({GoodSection, A4(1134, 1134, 1000, 1134),
                   Section(11906, 16838, 1200, 1134, 1134, 1134, <<S(<<"a">>)>>, <<>>)},
                  MaxSections)
PageInputs ==
    {Input(File(ss, GoodFile(900).paragraphs), r) :
        ss \in SectionSeqs,
        r \in {None, Some([ThesisStyleRules EXCEPT !.margin_twips = 1175])}}

(* short documents: every sequence of up to MaxParas pool paragraphs *)
ParagraphPool ==
    {EmptyParagraph,
     Paragraph("LEFT", Multiple(240), Some(0), <<Run(TitleMixed, Some("Arial"), Some(20), Some(FALSE), None)>>, <<>>),
     Justified(<<PlainRun(HeadingPadded)>>),
     Justified(<<SizedRun(FigureCaption, 20), SizedRun(OrgText, 30)>>)}
ShortInputs ==
    {Input(File(<<GoodSection>>, ps), r) :
        ps \in SeqsUpTo(ParagraphPool, MaxParas),
        r \in {None, Some([ThesisStyleRules EXCEPT !.require_literature_block = FALSE])}}

(* header blocks: the title's runs, with and without the header requirements *)
HeaderRunPool ==
    {HeaderRun(TitleUpper),
     Run(TitleMixed, None, Some(REQUIRED_SIZE_PT), None, None),
     Run(TitleUpper, Some("Arial"), None, Some(FALSE), Some(TRUE)),
     Run(TitleUpper, Some(REQUIRED_FONT), Some(30), Some(TRUE), Some(FALSE)),
     Run(TitleUpper, Some(REQUIRED_FONT), Some(29), Some(TRUE), None),
     Run(S(<<" ">>), Some("Arial"), Some(40), Some(FALSE), Some(FALSE))}
HeaderRules ==
    {None,
     Some([ThesisStyleRules EXCEPT !.require_bold_header = FALSE]),
     Some([ThesisStyleRules EXCEPT !.authors_italic = FALSE, !.header_centered = FALSE,
                                   !.title_uppercase = FALSE, !.font_size_pt = 30])}
HeaderBlocks ==
    {<<Paragraph(a, NoSpacing, None, runs, <<>>), GoodHeader[2], GoodHeader[3]>> :
        a \in {"CENTER", "None"}, runs \in SeqsUpTo(HeaderRunPool, MaxRuns) \ {<<>>}}
    \cup {<<GoodHeader[1], Paragraph("LEFT", NoSpacing, None, <<r>>, <<>>),
            Centered(<<PlainRun(OrgText)>>)>> :
            r \in {Run(AuthorsPlain, Some(REQUIRED_FONT), Some(REQUIRED_SIZE_PT), None, Some(FALSE)),
                   Run(AuthorsInitials, Some(REQUIRED_FONT), Some(REQUIRED_SIZE_PT), Some(TRUE), None)}}
    \cup {<<Centered(runs), GoodHeader[2], Paragraph("CENTER", NoSpacing, None, <<>>, OrgText)>> :
            runs \in {<<HeaderRun(TitleUpper)>>,
                      <<Run(TitleMixed, None, Some(REQUIRED_SIZE_PT), None, None),
                        Run(TitleUpper, None, None, Some(TRUE), None)>>}}
HeaderInputs ==
    {Input(File(<<GoodSection>>, h \o <<Justified(<<PlainRun(Filler(900))>>)>> \o GoodTail), r) :
        h \in HeaderBlocks, r \in HeaderRules}

(* captions: run sizes at and around 12 pt, absent, and zero *)
CaptionSizes == {None, Some(0), Some(20), Some(22), Some(23), Some(24), Some(25), Some(26)}
CaptionRun(text, size) == Run(text, None, size, None, None)
CaptionParagraphs ==
    {Justified(<<CaptionRun(t, a)>> \o rest) :
        t \in {FigureCaption, TableCaption, FigureWord}, a \in CaptionSizes,
        rest \in SeqsUpTo({CaptionRun(OrgText, Some(20)), CaptionRun(OrgText, Some(24)),
                           CaptionRun(S(<<" ">>), Some(20))}, MaxRuns - 1)}
CaptionInputs ==
    {Input(File(<<GoodSection>>,
                GoodHeader \o <<Justified(<<PlainRun(Filler(900))>>), c>> \o GoodTail), None) :
        c \in CaptionParagraphs}

(* literature: the heading, present or not, and what follows it *)
LiteratureInputs ==
    {Input(File(<<GoodSection>>, GoodHeader \o pre \o <<Justified(<<PlainRun(h)>>)>> \o post), r) :
        pre \in {<<>>, <<Justified(<<PlainRun(Filler(900))>>)>>},
        h \in {HeadingCapital, HeadingPadded, HeadingColon},
        post \in SeqsUpTo({Justified(<<PlainRun(ItemText)>>), Justified(<<PlainRun(OrgText)>>)},
                          MaxParas),
        r \in {None, Some([ThesisStyleRules EXCEPT !.require_literature_block = FALSE])}}

(* length: texts at and around MIN_TEXT_CHARS and MAX_TEXT_CHARS *)
LengthTexts ==
    {<<Filler(n)>> : n \in {500, 799, 800, 801, 3000, 6499, 6500, 6501, 7000}}
    \cup {<<Rep(" ", 900)>>,
          <<Filler(400) \o Rep(" ", 500) \o Rep("\t", 3) \o Filler(399)>>,
          <<Filler(400), Filler(399)>>,
          <<Filler(400), S(<<" ">>), Filler(398)>>,
          <<Filler(6000), <<>>, Filler(500)>>,
          <<S(<<" ">>) \o Filler(6500) \o S(<<"\n">>)>>}
LengthInputs ==
    {Input(File(<<GoodSection>>, [i \in DOMAIN ts |-> Justified(<<PlainRun(ts[i])>>)]), None) :
        ts \in LengthTexts}
    \cup {Input(GoodFile(n), None) : n \in {748, 749, 3000, 6449, 6450}}

(* body: alignment, spacing, indent and fonts of the sampled paragraphs *)
BodyPool ==
    {Justified(<<PlainRun(Filler(900))>>),
     Paragraph("LEFT", Multiple(240), Some(0), <<PlainRun(Filler(900))>>, <<>>),
     Paragraph("None", Multiple(290), Some(789), <<Run(OrgText, Some(""), Some(0), None, None)>>, <<>>),
     Paragraph("JUSTIFY", Multiple(291), Some(790), <<Run(OrgText, Some("Arial"), Some(20), None, None)>>, <<>>),
     Paragraph("JUSTIFY", Absolute(152400), Some(755), <<Run(OrgText, None, Some(20), None, None)>>, <<>>),
     Paragraph("CENTER", NoSpacing, Some(628), <<PlainRun(S(<<" ">>)), PlainRun(OrgText)>>, <<>>)}
BodyInputs ==
    {Input(File(<<GoodSection>>, GoodHeader \o body \o tail), r) :
        body \in SeqsUpTo(BodyPool, 2), tail \in {<<>>, GoodTail},
        r \in {None, Some([ThesisStyleRules EXCEPT !.body_justify = FALSE]),
               Some([ThesisStyleRules EXCEPT !.paragraph_indent_cm = 100])}}
    \cup {Input(File(<<GoodSection>>, GoodHeader \o [i \in 1..n |-> b] \o GoodTail), None) :
            n \in (BodySampleSize - 1)..(BodySampleSize + 2), b \in BodyPool}

(* body window: faulty paragraphs before and after the heading, around the  *)
(* sample size, and the heading among the three header lines                *)
FaultyParagraph ==
    Paragraph("LEFT", Multiple(240), Some(0),
              <<Run(OrgText, Some("Arial"), Some(20), None, None)>>, <<>>)
HeadingParagraph == Justified(<<PlainRun(HeadingPadded)>>)
WindowInputs ==
    {Input(File(<<GoodSection>>,
                GoodHeader \o [i \in 1..n |-> FaultyParagraph] \o <<HeadingParagraph>>
                    \o [i \in 1..m |-> FaultyParagraph] \o h2), None) :
        n \in {0, 1, BodySampleSize - 1, BodySampleSize, BodySampleSize + 1},
        m \in {0, 2}, h2 \in {<<>>, <<HeadingParagraph, FaultyParagraph>>}}
    \cup {Input(File(<<GoodSection>>,
                     <<GoodHeader[1], HeadingParagraph, GoodHeader[3]>>
                         \o [i \in 1..n |-> FaultyParagraph] \o tail), None) :
            n \in {0, 2}, tail \in {<<>>, <<HeadingParagraph, FaultyParagraph>>}}

(* a document every module finds fault with *)
PoorFile ==
    File(<<A4(1134, 1134, 1000, 1134)>>,
         << Centered(<<PlainRun(TitleMixed)>>), Justified(<<PlainRun(HeadingCapital)>>),
            Centered(<<HeaderRun(OrgText)>>),
            Paragraph("LEFT", Multiple(240), Some(0), <<SizedRun(FigureCaption, 20)>>, <<>>) >>)

(* a document with every fault that fails a report, short of a short header *)
WorstFile ==
    File(<<Section(11906, 16838, 1134, 1134, 1000, 1134, <<S(<<"a">>)>>, <<>>)>>,
         << Paragraph("LEFT", NoSpacing, None,
                      <<Run(TitleMixed, Some("Arial"), Some(20), None, None)>>, <<>>),
            Paragraph("LEFT", NoSpacing, None,
                      <<Run(AuthorsPlain, Some(REQUIRED_FONT), Some(REQUIRED_SIZE_PT),
                            Some(TRUE), None)>>, <<>>),
            Paragraph("LEFT", NoSpacing, None, <<HeaderRun(OrgText)>>, <<>>),
            FaultyParagraph,
            Paragraph("LEFT", Multiple(240), Some(0), <<SizedRun(FigureCaption, 20)>>, <<>>) >>)

Inputs ==
    PageInputs \cup ShortInputs \cup HeaderInputs \cup CaptionInputs \cup LiteratureInputs
    \cup LengthInputs \cup BodyInputs \cup WindowInputs
    \cup {Input(Corrupt, None), Input(PoorFile, None), Input(WorstFile, None)}

(* the calls made between two calls with the same input *)
Between == {Input(GoodFile(900), None), Input(Corrupt, None), Input(PoorFile, None)}

-----------------------------------------------------------------------------
(* The calls *)

NoResult == [report |-> None, error |-> None]
Effective(r) == IF IsNone(r) THEN ThesisStyleRules ELSE Val(r)

Init ==
    /\ pc = "idle"
    /\ doc = NoFile
    /\ rules = ThesisStyleRules
    /\ issues = <<>>
    /\ report = None
    /\ error = None
    /\ first = [set |-> FALSE, done |-> FALSE, inp |-> NoInput, result |-> NoResult,
                later |-> FALSE, between |-> FALSE]

(* What the caller keeps: the input and the result of its first call (set,   *)
(* inp, done, result), whether the call under way is a later one (later),    *)
(* and whether a call with another input was made after the first (between). *)
Remember(result) ==
    IF first.done THEN first ELSE [first EXCEPT !.done = TRUE, !.result = result]

(* validate_thesis_docx(path, rules): rules = rules or ThesisStyleRules() *)
Call(inp) ==
    /\ Idle
    /\ doc' = inp.file
    /\ rules' = Effective(inp.rules)
    /\ report' = None
    /\ error' = None
    /\ pc' = "load"
    /\ first' = IF first.set
                THEN [first EXCEPT !.later = TRUE,
                                   !.between = first.between \/ inp # first.inp]
                ELSE [first EXCEPT !.set = TRUE, !.inp = inp]
    /\ UNCHANGED issues

(* doc = Document(str(path)); issues = [] *)
LoadOk ==
    /\ pc = "load"
    /\ doc.readable
    /\ issues' = NewIssueList(issues)
    /\ pc' = "page"
    /\ UNCHANGED <<doc, rules, report, error, first>>

LoadFail ==
    /\ pc = "load"
    /\ ~doc.readable
    /\ report' = LoadFailure(doc).report
    /\ error' = LoadFailure(doc).error
    /\ pc' = "raised"
    /\ first' = Remember(LoadFailure(doc))
    /\ UNCHANGED <<doc, rules, issues>>

Step(at, found, next) ==
    /\ pc = at
    /\ issues' = Extend(issues, found)
    /\ pc' = next
    /\ UNCHANGED <<doc, rules, report, error, first>>

PageSetupStep == Step("page", CheckPageSetup(doc, rules), "header")
HeaderStep == Step("header", CheckHeaderStructure(doc, rules), "body")
BodyStep == Step("body", CheckBodyParagraphs(doc, rules), "literature")
LiteratureStep == Step("literature", CheckLiterature(doc, rules), "captions")
CaptionsStep == Step("captions", CheckCaptions(doc), "length")
LengthStep == Step("length", CheckLengthHeuristic(doc), "verdict")

Return ==
    /\ pc = "verdict"
    /\ report' = Some(ValidationReport(issues))
    /\ pc' = "returned"
    /\ first' = Remember([report |-> Some(ValidationReport(issues)), error |-> None])
    /\ UNCHANGED <<doc, rules, issues, error>>

Next ==
    \/ \E inp \in (IF first.set THEN {first.inp} \cup Between ELSE Inputs) : Call(inp)
    \/ LoadOk
    \/ LoadFail
    \/ PageSetupStep
    \/ HeaderStep
    \/ BodyStep
    \/ LiteratureStep
    \/ CaptionsStep
    \/ LengthStep
    \/ Return

Spec == Init /\ [][Next]_vars

-----------------------------------------------------------------------------
(* What the claims speak of *)

Returned == pc = "returned"
Findings == Val(report).issues
Count(list, code) == Cardinality({i \in DOMAIN list : list[i].code = code})
Has(list, code) == \E i \in DOMAIN list : list[i].code = code
(* the value of a key of a finding's details *)
Detail(issue, key) ==
    issue.details[CHOOSE k \in DOMAIN issue.details : issue.details[k][1] = key][2]
NoHeading(d) == \A i \in DOMAIN d.paragraphs : ~IsLiteratureHeading(d.paragraphs[i])

-----------------------------------------------------------------------------
(* C1: in every report returned, ok is true exactly when no finding of the  *)
(* report has severity ERROR.                                               *)
C1_OkIffNoError ==
    Returned =>
        (Val(report).ok <=> \A i \in DOMAIN Findings : Findings[i].severity # ERROR)

(* a report that passes although it holds findings, all of them warnings *)
C1_Witness == Returned /\ Val(report).ok /\ Findings # <<>>

-----------------------------------------------------------------------------
(* C2, as claimed: whenever the literature block is required and no         *)
(* paragraph is the heading, the report holds exactly one LITERATURE_MISSING, *)
(* an ERROR, and neither LITERATURE_NOT_AT_END nor LITERATURE_ITEMS_FORMAT,  *)
(* also when the document has no non-empty paragraph at all.                 *)
LiteratureMissingOnly ==
    /\ Count(Findings, "LITERATURE_MISSING") = 1
    /\ \A i \in DOMAIN Findings :
          Findings[i].code = "LITERATURE_MISSING" => Findings[i].severity = ERROR
    /\ ~Has(Findings, "LITERATURE_NOT_AT_END")
    /\ ~Has(Findings, "LITERATURE_ITEMS_FORMAT")

C2_Claimed ==
    (Returned /\ rules.require_literature_block /\ NoHeading(doc)) => LiteratureMissingOnly

(* C2, amended: the same for every document with at least one non-empty      *)
(* paragraph; a document without a non-empty paragraph gets no literature    *)
(* finding at all.                                                           *)
C2_MissingWhenNonEmpty ==
    (Returned /\ rules.require_literature_block /\ NoHeading(doc)) =>
        IF NonEmptyParagraphs(doc) # <<>>
        THEN LiteratureMissingOnly
        ELSE /\ ~Has(Findings, "LITERATURE_MISSING")
             /\ ~Has(Findings, "LITERATURE_NOT_AT_END")
             /\ ~Has(Findings, "LITERATURE_ITEMS_FORMAT")

(* a document with a header, a body and a near-heading, without the heading *)
C2_Witness ==
    /\ Returned /\ rules.require_literature_block /\ NoHeading(doc)
    /\ Len(NonEmptyParagraphs(doc)) >= 4
    /\ Count(Findings, "LITERATURE_MISSING") = 1

-----------------------------------------------------------------------------
(* C3: a paragraph that starts with the figure marker and a number (Рис. 1,  *)
(* the spec's "Fig. 1") yields one CAPTION_SIZE_MISMATCH, a WARNING, when    *)
(* its non-blank runs are at 10 pt, and none when they are at 12 pt; no      *)
(* caption paragraph yields more than one, however many runs deviate.        *)
CaptionParagraphsOf(d) == {i \in DOMAIN d.paragraphs : IsCaption(StrippedText(d.paragraphs[i]))}
RunSizes(p) == {NonBlankRuns(p)[k].size : k \in DOMAIN NonBlankRuns(p)}

C3_OneMismatchPerCaption ==
    Returned =>
        LET n == Count(Findings, "CAPTION_SIZE_MISMATCH")
            captions == CaptionParagraphsOf(doc)
            at10 == {i \in captions : Some(20) \in RunSizes(doc.paragraphs[i])}
            at12 == {i \in captions : RunSizes(doc.paragraphs[i]) \subseteq {Some(24)}}
        IN  /\ n >= Cardinality(at10)
            /\ n <= Cardinality(captions \ at12)
            /\ \A i \in DOMAIN Findings :
                  Findings[i].code = "CAPTION_SIZE_MISMATCH" => Findings[i].severity = WARNING

(* the only caption of the document has two non-blank runs at 10 pt *)
C3_Witness ==
    /\ Returned
    /\ Cardinality(CaptionParagraphsOf(doc)) = 1
    /\ \E i \in CaptionParagraphsOf(doc) :
          /\ Len(NonBlankRuns(doc.paragraphs[i])) = 2
          /\ RunSizes(doc.paragraphs[i]) = {Some(20)}
          /\ StartsWith(StrippedText(doc.paragraphs[i]), FigureMarker \o S(<<" ", "1">>))
    /\ Count(Findings, "CAPTION_SIZE_MISMATCH") = 1

-----------------------------------------------------------------------------
(* C4: for a document with fewer than three non-empty paragraphs the header  *)
(* check adds exactly one finding, HEADER_TOO_SHORT with severity ERROR, and *)
(* the report holds no other header finding.                                 *)
OtherHeaderCodes ==
    {"TITLE_NOT_CENTER", "AUTHORS_NOT_CENTER", "ORG_NOT_CENTER", "TITLE_NOT_UPPERCASE",
     "FONT_NAME_MISMATCH", "FONT_SIZE_MISMATCH", "HEADER_NOT_BOLD", "AUTHORS_NOT_ITALIC",
     "FONT_UNKNOWN", "AUTHORS_LIST_FORMAT", "AUTHORS_INITIALS_PATTERN"}

C4_HeaderTooShort ==
    Len(NonEmptyParagraphs(doc)) < 3 =>
        /\ pc = "body" =>
              /\ Len(issues) = Len(CheckPageSetup(doc, rules)) + 1
              /\ issues[Len(issues)].code = "HEADER_TOO_SHORT"
              /\ issues[Len(issues)].severity = ERROR
        /\ Returned =>
              /\ Count(Findings, "HEADER_TOO_SHORT") = 1
              /\ \A i \in DOMAIN Findings : Findings[i].code \notin OtherHeaderCodes

(* exactly two non-empty paragraphs, badly formatted ones *)
C4_Witness ==
    /\ Returned
    /\ Len(NonEmptyParagraphs(doc)) = 2
    /\ \E i \in DOMAIN doc.paragraphs :
          \E k \in DOMAIN doc.paragraphs[i].runs : doc.paragraphs[i].runs[k].name = Some("Arial")
    /\ Count(Findings, "HEADER_TOO_SHORT") = 1

-----------------------------------------------------------------------------
(* C5: for every section and every side, the report holds one                *)
(* MARGIN_NOT_20MM finding naming that section and side when the side's      *)
(* margin differs from the configured margin by more than 40, and none       *)
(* otherwise: no finding for a section whose four margins equal the          *)
(* configured margin, one with side "left" when only the left one is off.    *)
SideNames == {"top", "bottom", "left", "right"}
MarginOf(section, side) ==
    CASE side = "top" -> section.top_margin
      [] side = "bottom" -> section.bottom_margin
      [] side = "left" -> section.left_margin
      [] side = "right" -> section.right_margin
MarginFindings(list, idx, side) ==
    {i \in DOMAIN list : /\ list[i].code = "MARGIN_NOT_20MM"
                         /\ Detail(list[i], "section") = idx
                         /\ Detail(list[i], "side") = side}

C5_OneFindingPerSideOff ==
    Returned =>
        \A s \in DOMAIN doc.sections : \A side \in SideNames :
            LET value == MarginOf(doc.sections[s], side)
                off == value - rules.margin_twips > 40 \/ rules.margin_twips - value > 40
            IN  Cardinality(MarginFindings(Findings, s - 1, side)) = IF off THEN 1 ELSE 0

(* a section whose left margin alone is off: one finding, side "left" *)
C5_Witness ==
    /\ Returned
    /\ \E s \in DOMAIN doc.sections :
          /\ doc.sections[s].left_margin = rules.margin_twips + 41
          /\ \A side \in SideNames \ {"left"} :
                MarginOf(doc.sections[s], side) = rules.margin_twips
          /\ Cardinality(MarginFindings(Findings, s - 1, "left")) = 1
          /\ \A side \in SideNames \ {"left"} : MarginFindings(Findings, s - 1, side) = {}

-----------------------------------------------------------------------------
(* C6: with n the number of characters of the joined, stripped and           *)
(* whitespace-collapsed paragraph texts, the report holds LENGTH_TOO_SHORT   *)
(* exactly when n < 800 and LENGTH_TOO_LONG exactly when n > 6500, and never *)
(* both.                                                                     *)
C6_LengthThresholds ==
    Returned =>
        LET n == TextChars(doc)
        IN  /\ Has(Findings, "LENGTH_TOO_SHORT") <=> n < 800
            /\ Has(Findings, "LENGTH_TOO_LONG") <=> n > 6500
            /\ ~(Has(Findings, "LENGTH_TOO_SHORT") /\ Has(Findings, "LENGTH_TOO_LONG"))
            /\ Count(Findings, "LENGTH_TOO_SHORT") <= 1
            /\ Count(Findings, "LENGTH_TOO_LONG") <= 1

(* a text of 7000 characters is too long and not too short *)
C6_Witness ==
    /\ Returned
    /\ TextChars(doc) = 7000
    /\ Has(Findings, "LENGTH_TOO_LONG")
    /\ ~Has(Findings, "LENGTH_TOO_SHORT")

-----------------------------------------------------------------------------
(* C7: when the file cannot be loaded, the call ends by raising, before any  *)
(* check has run: no check step is ever taken on such a file, the step that  *)
(* fails adds no finding and returns no report, and the call ends with the   *)
(* error set and no report.                                                  *)
C7_ParseFailureRaises ==
    /\ [](pc \in {"page", "header", "body", "literature", "captions", "length",
                  "verdict", "returned"} => doc.readable)
    /\ [](pc = "raised" =>
            ~doc.readable /\ report = None /\ error = Some("DocumentParseError"))
    /\ [](report # None => error = None)
    /\ [][(pc = "load" /\ ~doc.readable) =>
            (pc' = "raised" /\ report' = None /\ error' # None /\ issues' = issues)]_vars

(* a call on a corrupt file has ended *)
C7_Witness == pc = "raised" /\ ~doc.readable /\ report = None /\ error # None

-----------------------------------------------------------------------------
(* C8: the findings of a report are those of page setup, header structure,   *)
(* body paragraphs, literature, captions and length, in that order, each     *)
(* module's findings in the order the module found them; no finding of a     *)
(* later module stands before one of an earlier module.                      *)
ModuleOf(code) ==
    CASE code \in {"PAGE_NOT_A4", "MARGIN_NOT_20MM", "HEADER_FOOTER_PRESENT"} -> 1
      [] code \in OtherHeaderCodes \cup {"HEADER_TOO_SHORT"} -> 2
      [] code \in {"BODY_NOT_JUSTIFIED", "LINE_SPACING_MISMATCH", "LINE_SPACING_ABSOLUTE",
                   "INDENT_MISMATCH", "BODY_FONT_NAME_MISMATCH", "BODY_FONT_SIZE_MISMATCH"} -> 3
      [] code \in {"LITERATURE_MISSING", "LITERATURE_NOT_AT_END", "LITERATURE_ITEMS_FORMAT"} -> 4
      [] code = "CAPTION_SIZE_MISMATCH" -> 5
      [] code \in {"LENGTH_TOO_SHORT", "LENGTH_TOO_LONG"} -> 6

C8_ModuleOrder ==
    Returned =>
        /\ Findings = CheckPageSetup(doc, rules) \o CheckHeaderStructure(doc, rules)
                      \o CheckBodyParagraphs(doc, rules) \o CheckLiterature(doc, rules)
                      \o CheckCaptions(doc) \o CheckLengthHeuristic(doc)
        /\ \A i, j \in DOMAIN Findings :
              i < j => ModuleOf(Findings[i].code) <= ModuleOf(Findings[j].code)

(* a report with findings of all six modules *)
C8_Witness ==
    /\ Returned
    /\ {ModuleOf(Findings[i].code) : i \in DOMAIN Findings} = 1..6

-----------------------------------------------------------------------------
(* C9: a later call with the input of the first call, whatever was validated *)
(* in between, ends as the first call ended: the same report (ok, findings,  *)
(* their order, codes, severities and details) or the same error; and a call *)
(* leaves the document as it was given.                                      *)
C9_SameInputSameResult ==
    /\ (first.set /\ ~first.later) => (doc = first.inp.file /\ rules = Effective(first.inp.rules))
    /\ (pc \in {"returned", "raised"} /\ first.done
        /\ doc = first.inp.file /\ rules = Effective(first.inp.rules)) =>
            (report = first.result.report /\ error = first.result.error)

(* the input of the first call validated again after a call on another input *)
C9_Witness ==
    /\ Returned /\ first.later /\ first.between
    /\ doc = first.inp.file /\ rules = Effective(first.inp.rules)
    /\ Findings # <<>>
    /\ report = first.result.report

-----------------------------------------------------------------------------
(* C10, as claimed: when the rules do not require a bold header              *)
(* (require_bold_header is false), the report holds no HEADER_NOT_BOLD.      *)
C10_Claimed ==
    (Returned /\ ~rules.require_bold_header) => ~Has(Findings, "HEADER_NOT_BOLD")

-----------------------------------------------------------------------------
(* The sampled body paragraphs, and the findings about their indents *)
SampledParagraphs == IF Len(NonEmptyParagraphs(doc)) < 4 THEN <<>> ELSE Sample(doc)
IndentFindings == {i \in DOMAIN Findings : Findings[i].code = "INDENT_MISMATCH"}
(* how many of the paragraphs have the indent g, how many findings report g *)
WithIndent(sampled, g) ==
    Cardinality({i \in DOMAIN sampled : sampled[i].first_line_indent = Some(g)})
FindingsWithIndent(g) ==
    Cardinality({i \in IndentFindings : Detail(Findings[i], "got_twips") = g})
IndentsRead(sampled) ==
    {Val(sampled[i].first_line_indent) :
        i \in {j \in DOMAIN sampled : ~IsNone(sampled[j].first_line_indent)}}
    \cup {Detail(Findings[i], "got_twips") : i \in IndentFindings}

(* more than 0.8 mm between an indent of g twentieths of a point and the     *)
(* configured indent of c hundredths of a centimetre: a twentieth of a point *)
(* is 2.54/1440 cm, so the difference, in 1/72000 cm, is 127 g - 720 c, and  *)
(* 0.8 mm is 5760 of them                                                    *)
BeyondEightTenthsMm(g, c) == Abs(127 * g - 720 * c) > 5760
(* more than 80 twentieths of a point from the configured indent in          *)
(* twentieths of a point, rounded to the nearest integer                     *)
BeyondEightyTwips(g, c) == Abs(g - ((2 * 720 * c + 127) \div 254)) > 80

(* C11, as claimed: a sampled body paragraph with a first-line indent yields *)
(* INDENT_MISMATCH, a WARNING, exactly when the indent is more than 0.8 mm   *)
(* away from the configured indent; a paragraph without an indent yields     *)
(* none.                                                                     *)
C11_Claimed ==
    Returned =>
        LET sampled == SampledParagraphs
        IN  /\ \A g \in IndentsRead(sampled) :
                  FindingsWithIndent(g) =
                      IF BeyondEightTenthsMm(g, rules.paragraph_indent_cm)
                      THEN WithIndent(sampled, g) ELSE 0
            /\ \A i \in IndentFindings : Findings[i].severity = WARNING

(* C11, amended: a sampled body paragraph with a first-line indent yields    *)
(* INDENT_MISMATCH, a WARNING, exactly when the indent, read in twentieths   *)
(* of a point, is more than 80 of them (about 1.4 mm) away from the          *)
(* configured indent converted to twentieths of a point and rounded (709 for *)
(* 1.25 cm); a paragraph without an indent yields none.                      *)
C11_IndentWithinEightyTwips ==
    Returned =>
        LET sampled == SampledParagraphs
        IN  /\ \A g \in IndentsRead(sampled) :
                  FindingsWithIndent(g) =
                      IF BeyondEightyTwips(g, rules.paragraph_indent_cm)
                      THEN WithIndent(sampled, g) ELSE 0
            /\ \A i \in IndentFindings :
                  /\ Findings[i].severity = WARNING
                  /\ Detail(Findings[i], "expected_twips") =
                        (2 * 720 * rules.paragraph_indent_cm + 127) \div 254

(* two sampled paragraphs, one 80 and one 81 twentieths of a point from the  *)
(* default indent, and a finding for the second alone                        *)
C11_Witness ==
    /\ Returned /\ rules.paragraph_indent_cm = INDENT_CM
    /\ Cardinality(IndentFindings) = 1
    /\ FindingsWithIndent(790) = 1
    /\ LET sampled == SampledParagraphs
       IN  WithIndent(sampled, 789) = 1 /\ WithIndent(sampled, 790) = 1

-----------------------------------------------------------------------------
(* The header paragraphs, by the name their findings carry *)
HeaderNames == <<"title", "authors", "organization">>
FontCodes ==
    {"FONT_NAME_MISMATCH", "FONT_SIZE_MISMATCH", "HEADER_NOT_BOLD", "AUTHORS_NOT_ITALIC",
     "FONT_UNKNOWN"}
(* the findings with the code that name the header paragraph *)
FontFindings(code, where) ==
    {i \in DOMAIN Findings :
        Findings[i].code = code /\ Detail(Findings[i], "where") = where}
(* the runs of the paragraph with text other than whitespace *)
TextRuns(p) == {k \in DOMAIN p.runs : Strip(p.runs[k].text) # <<>>}

(* C12: of a header paragraph (title, authors, organization) the report      *)
(* holds each of FONT_NAME_MISMATCH, FONT_SIZE_MISMATCH, HEADER_NOT_BOLD,    *)
(* AUTHORS_NOT_ITALIC and FONT_UNKNOWN at most once, however many runs it    *)
(* has; FONT_UNKNOWN, a WARNING, exactly when some non-blank run lacks its   *)
(* font name or size, or there is no non-blank run, and neither              *)
(* FONT_NAME_MISMATCH nor FONT_SIZE_MISMATCH is reported of the paragraph;   *)
(* and a finding is always owed to a non-blank run, never to a blank one.    *)
C12_FontFindingsPerParagraph ==
    (Returned /\ Len(NonEmptyParagraphs(doc)) >= 3) =>
        \A h \in 1..3 :
            LET p == NonEmptyParagraphs(doc)[h]
                where == HeaderNames[h]
                runs == TextRuns(p)
                emitted(code) == FontFindings(code, where) # {}
                unknown == \/ runs = {}
                           \/ \E k \in runs : p.runs[k].name = None \/ p.runs[k].size = None
            IN  /\ \A code \in FontCodes : Cardinality(FontFindings(code, where)) <= 1
                /\ emitted("FONT_UNKNOWN") <=>
                      (unknown /\ ~emitted("FONT_NAME_MISMATCH")
                               /\ ~emitted("FONT_SIZE_MISMATCH"))
                /\ \A i \in FontFindings("FONT_UNKNOWN", where) : Findings[i].severity = WARNING
                /\ emitted("FONT_NAME_MISMATCH") <=>
                      \E k \in runs : p.runs[k].name \notin {None, Some(rules.font_name)}
                /\ emitted("FONT_SIZE_MISMATCH") <=>
                      \E k \in runs : /\ p.runs[k].size # None
                                      /\ Abs(Val(p.runs[k].size) - rules.font_size_pt) > 1
                /\ emitted("HEADER_NOT_BOLD") => \E k \in runs : p.runs[k].bold # Some(TRUE)
                /\ emitted("AUTHORS_NOT_ITALIC") =>
                      \E k \in runs : p.runs[k].italic # Some(TRUE)

(* a title of two non-blank runs, both without a font name, and one          *)
(* FONT_UNKNOWN for it; an organization line without a run, and one for it   *)
C12_Witness ==
    /\ Returned /\ Len(NonEmptyParagraphs(doc)) >= 3
    /\ LET title_p == NonEmptyParagraphs(doc)[1]
           org_p == NonEmptyParagraphs(doc)[3]
       IN  /\ Cardinality(TextRuns(title_p)) = 2
           /\ \A k \in TextRuns(title_p) : title_p.runs[k].name = None
           /\ TextRuns(org_p) = {}
    /\ Cardinality(FontFindings("FONT_UNKNOWN", "title")) = 1
    /\ Cardinality(FontFindings("FONT_UNKNOWN", "organization")) = 1

-----------------------------------------------------------------------------
(* The findings of the body check, and the paragraphs they may be owed to *)
BodyCodes ==
    {"BODY_NOT_JUSTIFIED", "LINE_SPACING_MISMATCH", "LINE_SPACING_ABSOLUTE", "INDENT_MISMATCH",
     "BODY_FONT_NAME_MISMATCH", "BODY_FONT_SIZE_MISMATCH"}
(* whether a paragraph has what the finding with the code is about *)
MayYield(p, code) ==
    CASE code = "BODY_NOT_JUSTIFIED" -> rules.body_justify /\ p.alignment \notin {"None", "JUSTIFY"}
      [] code \in {"LINE_SPACING_MISMATCH", "LINE_SPACING_ABSOLUTE"} -> p.line_spacing # NoSpacing
      [] code = "INDENT_MISMATCH" -> p.first_line_indent # None
      [] code = "BODY_FONT_NAME_MISMATCH" -> \E k \in TextRuns(p) : p.runs[k].name # None
      [] code = "BODY_FONT_SIZE_MISMATCH" -> \E k \in TextRuns(p) : p.runs[k].size # None
(* the places, among the non-empty paragraphs ne, of the headings from the   *)
(* place from on                                                             *)
HeadingsFrom(ne, from) ==
    {k \in from..Len(ne) : TextEq(Lower(Strip(ParaText(ne[k]))), LiteratureHeading)}
(* the places after the three header lines, among the first 30 of them and   *)
(* before the first heading found from the place from on                     *)
WindowBefore(ne, from) ==
    {k \in 4..Len(ne) :
        /\ k <= 3 + 30
        /\ \A h \in HeadingsFrom(ne, from) : k < h}
(* every body code is found at most as often as paragraphs of the window may *)
(* yield it, and BODY_NOT_JUSTIFIED exactly as often                         *)
BodyFindingsWithin(ne, window) ==
    /\ \A code \in BodyCodes :
          Count(Findings, code) <= Cardinality({k \in window : MayYield(ne[k], code)})
    /\ Count(Findings, "BODY_NOT_JUSTIFIED") =
          Cardinality({k \in window : MayYield(ne[k], "BODY_NOT_JUSTIFIED")})

(* C13, as claimed: the body findings are owed only to paragraphs among the  *)
(* first 30 non-empty paragraphs after the three header lines and before the *)
(* first paragraph of the document that is the literature heading; the       *)
(* heading, what follows it and what lies beyond the 30th yield none, and a  *)
(* document of fewer than four non-empty paragraphs yields none.             *)
C13_Claimed ==
    Returned =>
        LET ne == NonEmptyParagraphs(doc)
        IN  BodyFindingsWithin(ne, WindowBefore(ne, 1))

(* C13, amended: the same with the heading looked for only among the         *)
(* paragraphs after the three header lines; a heading among the three header *)
(* lines does not end the body.                                              *)
C13_WindowAfterHeader ==
    Returned =>
        LET ne == NonEmptyParagraphs(doc)
        IN  BodyFindingsWithin(ne, WindowBefore(ne, 4))

(* 31 faulty paragraphs before the heading and two after it: 30 findings of  *)
(* each kind                                                                 *)
C13_Witness ==
    /\ Returned
    /\ LET ne == NonEmptyParagraphs(doc)
       IN  /\ Cardinality(WindowBefore(ne, 4)) = 30
           /\ \E h \in HeadingsFrom(ne, 4) :
                 /\ h = 3 + 30 + 2
                 /\ \A k \in (4..Len(ne)) \ {h} : ne[k] = FaultyParagraph
                 /\ Len(ne) = h + 2
    /\ Count(Findings, "BODY_NOT_JUSTIFIED") = 30
    /\ Count(Findings, "INDENT_MISMATCH") = 30

-----------------------------------------------------------------------------
(* The codes the claim gives the severity ERROR *)
ErrorCodes ==
    {"MARGIN_NOT_20MM", "HEADER_FOOTER_PRESENT", "HEADER_TOO_SHORT", "TITLE_NOT_CENTER",
     "AUTHORS_NOT_CENTER", "ORG_NOT_CENTER", "TITLE_NOT_UPPERCASE", "FONT_NAME_MISMATCH",
     "FONT_SIZE_MISMATCH", "HEADER_NOT_BOLD", "AUTHORS_NOT_ITALIC", "LITERATURE_MISSING"}
AllWarnings(list) == \A i \in DOMAIN list : list[i].severity = WARNING
NoError(list) == \A i \in DOMAIN list : list[i].severity # ERROR

(* C14: every finding of the body, captions and length checks is a WARNING,  *)
(* so ok is the verdict over the findings of the page setup, header and      *)
(* literature checks alone; a finding is an ERROR exactly when its code is   *)
(* one of the twelve listed, and a WARNING otherwise, so that no code is     *)
(* found with two severities.                                                *)
C14_OnlyThreeChecksFail ==
    /\ \A i \in DOMAIN issues :
          issues[i].severity = IF issues[i].code \in ErrorCodes THEN ERROR ELSE WARNING
    /\ Returned =>
          /\ AllWarnings(CheckBodyParagraphs(doc, rules))
          /\ AllWarnings(CheckCaptions(doc))
          /\ AllWarnings(CheckLengthHeuristic(doc))
          /\ \A i \in DOMAIN Findings :
                ModuleOf(Findings[i].code) \in {3, 5, 6} => Findings[i].severity = WARNING
          /\ Val(report).ok <=>
                NoError(CheckPageSetup(doc, rules) \o CheckHeaderStructure(doc, rules)
                            \o CheckLiterature(doc, rules))

(* a failed report with every listed code but HEADER_TOO_SHORT as an ERROR   *)
(* and with warnings of the body, captions and length checks                 *)
C14_Witness ==
    /\ Returned /\ ~Val(report).ok
    /\ \A code \in ErrorCodes \ {"HEADER_TOO_SHORT"} :
          \E i \in DOMAIN Findings : Findings[i].code = code /\ Findings[i].severity = ERROR
    /\ \A code \in {"BODY_NOT_JUSTIFIED", "CAPTION_SIZE_MISMATCH", "LENGTH_TOO_SHORT"} :
          \E i \in DOMAIN Findings : Findings[i].code = code /\ Findings[i].severity = WARNING

====
